---- MODULE Spec2Model ----
(***************************************************************************)
(* Model of openquake/engine.py: building a job profile from a             *)
(* configuration file (import_job_profile, _job_from_file) and running a   *)
(* calculation in a forked worker process watched by a forked supervisor   *)
(* process (run_calculation, _launch_calculation).                         *)
(*                                                                         *)
(* Three processes execute run_calculation after the forks: the parent,    *)
(* the worker ("calculation executor") and the supervisor.  Each holds its *)
(* own copy of the OqCalculation object (mem); the database row (db) is    *)
(* shared.  Model.save() writes every column of the row from the object    *)
(* held by the saving process.                                             *)
(***************************************************************************)
EXTENDS Integers, Sequences, FiniteSets, TLC

(* ------------------------------ bounds --------------------------------- *)

\* number of interactive interrupts (Ctrl-C) delivered during one run
MaxSigints == 1

\* number of distinct exception objects a step of the worker may raise
NumExceptions == 2

\* largest number of input files a configuration refers to
MaxInputFiles == 1

(* ----------------------------- constants ------------------------------- *)

Procs == {"parent", "worker", "supervisor"}

None == "None"

Terminal == {"succeeded", "failed"}

Exceptions == 1 .. NumExceptions

\* section names a configuration file may carry
SectionNames == {"general", "HAZARD", "RISK", "hazard"}

\* values of the output_type argument a caller may pass
OutputTypes == {"db", "xml", "csv"}

\* str.upper() on the job types of the loop in _launch_calculation
Upper == [hazard |-> "HAZARD", risk |-> "RISK"]

\* for job_type in ('hazard', 'risk')
JOB_TYPES_reversed == <<"risk", "hazard">>

JOB_TYPES == <<"hazard", "risk">>

\* calculator.analyze(); .pre_execute(); .execute(); .post_execute()
PHASES_short == <<"analyze", "pre_execute", "execute">>

PHASES == <<"analyze", "pre_execute", "execute", "post_execute">>

\* if not job_type.upper() in sections: continue
Applicable(job_type, secs) == Upper[job_type] \in secs

\* OqCalculation(owner=...): a new object, status column default 'pending'
NewCalculation == [status |-> "pending", supervisor_pid |-> None, job_pid |-> None]

\* the row written by obj.save(): every column comes from the saving object
SavedRow(obj) ==
    [saved |-> TRUE, status |-> obj.status,
     supervisor_pid |-> obj.supervisor_pid, job_pid |-> obj.job_pid]

\* records persisted by _prepare_job: one input set, one input per file,
\* one job profile
PrepareJob(st, nfiles) ==
    [input_sets |-> st.input_sets + 1,
     inputs |-> st.inputs + nfiles,
     job_profiles |-> st.job_profiles + 1]

(* ------------------------------- state --------------------------------- *)

VARIABLES
    pc,          \* position of each process
    mem,         \* each process's copy of the `calculation` object
    sigIgn,      \* whether SIGINT is ignored in each process
    db,          \* the OqCalculation row in the database
    sections,    \* the sections argument of run_calculation
    jt,          \* index in JOB_TYPES of the worker's loop
    ph,          \* index in PHASES of the next phase to call
    calls,       \* calculator phases called by the worker, in order
    statsRecorded, \* calc_proxy._record_initial_stats() has returned
    kvsWritten,  \* calc_proxy.to_kvs() has returned
    exc,         \* exception caught by the worker's except clause
    propagated,  \* exception that left the worker's run_calculation
    wsaves,      \* statuses saved by the worker, in order
    wdeath,      \* how the worker process ended
    sigints,     \* interrupts delivered so far
    ret,         \* the object run_calculation returned in the parent
    store,       \* numbers of input-set, input and job-profile records
    storeAtCall, \* store when the job-building entry point was called
    cfg,         \* a tree of configuration files and what parsing it gave
    prep,        \* raw parameters and what preparing them gave
    job,         \* one call of _prepare_job and its database transaction
    proxy        \* a CalculationProxy and the calls of sites_to_compute

vars == <<pc, mem, sigIgn, db, sections, jt, ph, calls, statsRecorded, kvsWritten,
          exc, propagated, wsaves, wdeath, sigints, ret, store, storeAtCall,
          cfg, prep, job, proxy>>

\* the state of run_calculation and of the entry points
runVars == <<pc, mem, sigIgn, db, sections, jt, ph, calls, statsRecorded, kvsWritten,
             exc, propagated, wsaves, wdeath, sigints, ret, store, storeAtCall>>

\* the state used by the functions studied on their own
pureVars == <<cfg, prep, job, proxy>>

\* value of a variable of pureVars while its function is not under study
Idle == [pc |-> "idle"]

workerVars == <<jt, ph, calls, statsRecorded, kvsWritten, exc, propagated, wsaves, wdeath>>

storeVars == <<store, storeAtCall>>

Init ==
    /\ pc = [parent |-> "start", worker |-> "unborn", supervisor |-> "unborn"]
    /\ mem = [p \in Procs |-> NewCalculation]
    /\ sigIgn = [p \in Procs |-> FALSE]
    /\ db = [saved |-> FALSE, status |-> "pending",
             supervisor_pid |-> None, job_pid |-> None]
    /\ sections \in SUBSET SectionNames
    /\ jt = 1
    /\ ph = 1
    /\ calls = <<>>
    /\ statsRecorded = FALSE
    /\ kvsWritten = FALSE
    /\ exc = 0
    /\ propagated = 0
    /\ wsaves = <<>>
    /\ wdeath = "none"
    /\ sigints = 0
    /\ ret = NewCalculation
    /\ store = [input_sets |-> 0, inputs |-> 0, job_profiles |-> 0]
    /\ storeAtCall = store
    /\ cfg = Idle
    /\ prep = Idle
    /\ job = Idle
    /\ proxy = Idle

(* ------------------- building a job from a config file ----------------- *)

\* import_job_profile(path_to_cfg): parse, prepare, validate, and only then
\* _prepare_job; the caller goes on to run_calculation with the profile.
ImportJobProfile ==
    /\ pc["parent"] = "start"
    /\ storeAtCall' = store
    /\ \E is_valid \in BOOLEAN, nfiles \in 0 .. MaxInputFiles :
          IF ~is_valid
             THEN /\ pc' = [pc EXCEPT !["parent"] = "ValidationException"]
                  /\ store' = store
             ELSE /\ store' = PrepareJob(store, nfiles)
                  /\ pc' = [pc EXCEPT !["parent"] = "run_calculation"]
    /\ UNCHANGED <<mem, sigIgn, db, sections, pureVars, workerVars, sigints, ret>>

\* _job_from_file(config_file, output_type): parse, prepare, _prepare_job,
\* and only then validate.
JobFromFile ==
    /\ pc["parent"] = "start"
    /\ storeAtCall' = store
    /\ \E is_valid \in BOOLEAN, nfiles \in 0 .. MaxInputFiles :
          /\ store' = PrepareJob(store, nfiles)
          /\ IF ~is_valid
                THEN pc' = [pc EXCEPT !["parent"] = "ValidationException"]
                ELSE pc' = [pc EXCEPT !["parent"] = "job_from_file_returned"]
    /\ UNCHANGED <<mem, sigIgn, db, sections, pureVars, workerVars, sigints, ret>>

(* --------------------- run_calculation: the parent --------------------- *)

\* lines 659-688: check output_type, create the calculation with status
\* 'running' and save it, build the proxy, close the db connections.
CreateCalculation ==
    /\ pc["parent"] = "run_calculation"
    /\ \E output_type \in OutputTypes :
          IF output_type \notin {"db", "xml"}
             THEN /\ pc' = [pc EXCEPT !["parent"] = "RuntimeError"]
                  /\ UNCHANGED <<mem, db>>
             ELSE LET calculation == [NewCalculation EXCEPT !.status = "running"]
                  IN /\ mem' = [mem EXCEPT !["parent"] = calculation]
                     /\ db' = SavedRow(calculation)
                     /\ pc' = [pc EXCEPT !["parent"] = "fork_worker"]
    /\ UNCHANGED <<sigIgn, sections, pureVars, workerVars, sigints, ret, storeVars>>

\* calc_pid = os.fork(): the child starts with a copy of the parent's
\* objects and signal dispositions.
ForkWorker ==
    /\ pc["parent"] = "fork_worker"
    /\ pc' = [pc EXCEPT !["parent"] = "fork_supervisor", !["worker"] = "init_logs"]
    /\ mem' = [mem EXCEPT !["worker"] = mem["parent"]]
    /\ sigIgn' = [sigIgn EXCEPT !["worker"] = sigIgn["parent"]]
    /\ UNCHANGED <<db, sections, pureVars, workerVars, sigints, ret, storeVars>>

\* supervisor_pid = os.fork()
ForkSupervisor ==
    /\ pc["parent"] = "fork_supervisor"
    /\ pc' = [pc EXCEPT !["parent"] = "ignore_sigint", !["supervisor"] = "record_pids"]
    /\ mem' = [mem EXCEPT !["supervisor"] = mem["parent"]]
    /\ sigIgn' = [sigIgn EXCEPT !["supervisor"] = sigIgn["parent"]]
    /\ UNCHANGED <<db, sections, pureVars, workerVars, sigints, ret, storeVars>>

\* supervisor.ignore_sigint() in the parent
ParentIgnoreSigint ==
    /\ pc["parent"] = "ignore_sigint"
    /\ sigIgn' = [sigIgn EXCEPT !["parent"] = TRUE]
    /\ pc' = [pc EXCEPT !["parent"] = "wait_worker"]
    /\ UNCHANGED <<mem, db, sections, pureVars, workerVars, sigints, ret, storeVars>>

\* os.waitpid(calc_pid, 0)
WaitWorker ==
    /\ pc["parent"] = "wait_worker"
    /\ pc["worker"] = "exited"
    /\ pc' = [pc EXCEPT !["parent"] = "wait_supervisor"]
    /\ UNCHANGED <<mem, sigIgn, db, sections, pureVars, workerVars, sigints, ret, storeVars>>

\* os.waitpid(supervisor_pid, 0) without waiting: a parent that goes on
\* while the supervisor still runs
WaitSupervisor_nowait ==
    /\ pc["parent"] = "wait_supervisor"
    /\ pc' = [pc EXCEPT !["parent"] = "return"]
    /\ UNCHANGED <<mem, sigIgn, db, sections, pureVars, workerVars, sigints, ret, storeVars>>

\* os.waitpid(supervisor_pid, 0)
WaitSupervisor ==
    /\ pc["parent"] = "wait_supervisor"
    /\ pc["supervisor"] \in {"exited", "interrupted"}
    /\ pc' = [pc EXCEPT !["parent"] = "return"]
    /\ UNCHANGED <<mem, sigIgn, db, sections, pureVars, workerVars, sigints, ret, storeVars>>

\* return calculation: the parent's own object, as it is in its memory
ParentReturn ==
    /\ pc["parent"] = "return"
    /\ ret' = mem["parent"]
    /\ pc' = [pc EXCEPT !["parent"] = "returned"]
    /\ UNCHANGED <<mem, sigIgn, db, sections, pureVars, workerVars, sigints, storeVars>>

(* --------------------- run_calculation: the worker --------------------- *)

\* an Exception raised inside the try block is caught by `except Exception`
Raise(e) ==
    /\ exc' = e
    /\ pc' = [pc EXCEPT !["worker"] = "except"]

\* logs.init_logs_amqp_send(level=FLAGS.debug, job_id=calculation.id)
WorkerInitLogs ==
    /\ pc["worker"] = "init_logs"
    /\ \E e \in {0} \cup Exceptions :
          IF e = 0
             THEN pc' = [pc EXCEPT !["worker"] = "record_initial_stats"] /\ exc' = exc
             ELSE Raise(e)
    /\ UNCHANGED <<mem, sigIgn, db, sections, pureVars, jt, ph, calls, statsRecorded,
                   kvsWritten, propagated, wsaves, wdeath, sigints, ret, storeVars>>

\* calc_proxy._record_initial_stats()
WorkerRecordInitialStats ==
    /\ pc["worker"] = "record_initial_stats"
    /\ \E e \in {0} \cup Exceptions :
          IF e = 0
             THEN /\ pc' = [pc EXCEPT !["worker"] = "to_kvs"]
                  /\ statsRecorded' = TRUE
                  /\ exc' = exc
             ELSE Raise(e) /\ statsRecorded' = statsRecorded
    /\ UNCHANGED <<mem, sigIgn, db, sections, pureVars, jt, ph, calls,
                   kvsWritten, propagated, wsaves, wdeath, sigints, ret, storeVars>>

\* calc_proxy.to_kvs()
WorkerToKvs ==
    /\ pc["worker"] = "to_kvs"
    /\ \E e \in {0} \cup Exceptions :
          IF e = 0
             THEN /\ pc' = [pc EXCEPT !["worker"] = "output_dir"]
                  /\ kvsWritten' = TRUE
                  /\ exc' = exc
             ELSE Raise(e) /\ kvsWritten' = kvsWritten
    /\ UNCHANGED <<mem, sigIgn, db, sections, pureVars, jt, ph, calls,
                   statsRecorded, propagated, wsaves, wdeath, sigints, ret, storeVars>>

\* output_dir = ...; os.makedirs(output_dir); calc_mode = ...
WorkerOutputDir ==
    /\ pc["worker"] = "output_dir"
    /\ \E e \in {0} \cup Exceptions :
          IF e = 0
             THEN pc' = [pc EXCEPT !["worker"] = "loop"] /\ exc' = exc /\ jt' = 1
             ELSE Raise(e) /\ jt' = jt
    /\ UNCHANGED <<mem, sigIgn, db, sections, pureVars, ph, calls, statsRecorded,
                   kvsWritten, propagated, wsaves, wdeath, sigints, ret, storeVars>>

\* for job_type in ('hazard', 'risk'): if not job_type.upper() in sections:
\* continue.  When the loop is over _launch_calculation returns and the
\* try statement goes to its else clause.
WorkerLoop ==
    /\ pc["worker"] = "loop"
    /\ IF jt > Len(JOB_TYPES)
          THEN pc' = [pc EXCEPT !["worker"] = "else"] /\ jt' = jt
          ELSE IF ~Applicable(JOB_TYPES[jt], sections)
                  THEN pc' = pc /\ jt' = jt + 1
                  ELSE pc' = [pc EXCEPT !["worker"] = "calc_class"] /\ jt' = jt
    /\ UNCHANGED <<mem, sigIgn, db, sections, pureVars, ph, calls, statsRecorded, kvsWritten,
                   exc, propagated, wsaves, wdeath, sigints, ret, storeVars>>

\* calc_class = CALCS[job_type][calc_mode]; calculator = calc_class(calc_proxy)
WorkerCalcClass ==
    /\ pc["worker"] = "calc_class"
    /\ \E e \in {0} \cup Exceptions :
          IF e = 0
             THEN pc' = [pc EXCEPT !["worker"] = "phase"] /\ exc' = exc /\ ph' = 1
             ELSE Raise(e) /\ ph' = ph
    /\ UNCHANGED <<mem, sigIgn, db, sections, pureVars, jt, calls, statsRecorded,
                   kvsWritten, propagated, wsaves, wdeath, sigints, ret, storeVars>>

\* calculator.analyze() / pre_execute() / execute() / post_execute(): the
\* phase is called; it returns, or raises e.
WorkerPhase ==
    /\ pc["worker"] = "phase"
    /\ \E e \in {0} \cup Exceptions :
          /\ calls' = Append(calls, [job_type |-> JOB_TYPES[jt],
                                     phase |-> PHASES[ph], raised |-> e])
          /\ IF e # 0
                THEN Raise(e) /\ UNCHANGED <<jt, ph>>
                ELSE /\ exc' = exc
                     /\ IF ph < Len(PHASES)
                           THEN ph' = ph + 1 /\ jt' = jt /\ pc' = pc
                           ELSE /\ ph' = 1
                                /\ jt' = jt + 1
                                /\ pc' = [pc EXCEPT !["worker"] = "loop"]
    /\ UNCHANGED <<mem, sigIgn, db, sections, pureVars, statsRecorded,
                   kvsWritten, propagated, wsaves, wdeath, sigints, ret, storeVars>>

\* the handler without its save: the failure is only logged
WorkerExcept_nosave ==
    /\ pc["worker"] = "except"
    /\ mem' = [mem EXCEPT !["worker"].status = "failed"]
    /\ pc' = [pc EXCEPT !["worker"] = "reraise"]
    /\ UNCHANGED <<sigIgn, db, sections, pureVars, jt, ph, calls, statsRecorded, kvsWritten,
                   exc, propagated, wsaves, wdeath, sigints, ret, storeVars>>

\* except Exception, ex: calculation.status = 'failed'; calculation.save()
WorkerExcept ==
    /\ pc["worker"] = "except"
    /\ mem' = [mem EXCEPT !["worker"].status = "failed"]
    /\ db' = SavedRow(mem'["worker"])
    /\ wsaves' = Append(wsaves, "failed")
    /\ pc' = [pc EXCEPT !["worker"] = "reraise"]
    /\ UNCHANGED <<sigIgn, sections, pureVars, jt, ph, calls, statsRecorded, kvsWritten,
                   exc, propagated, wdeath, sigints, ret, storeVars>>

\* raise: the caught exception leaves run_calculation, ending the process
WorkerReraise ==
    /\ pc["worker"] = "reraise"
    /\ propagated' = exc
    /\ wdeath' = "exception"
    /\ pc' = [pc EXCEPT !["worker"] = "exited"]
    /\ UNCHANGED <<mem, sigIgn, db, sections, pureVars, jt, ph, calls, statsRecorded,
                   kvsWritten, exc, wsaves, sigints, ret, storeVars>>

\* else: calculation.status = 'succeeded'; calculation.save()
WorkerElse ==
    /\ pc["worker"] = "else"
    /\ mem' = [mem EXCEPT !["worker"].status = "succeeded"]
    /\ db' = SavedRow(mem'["worker"])
    /\ wsaves' = Append(wsaves, "succeeded")
    /\ pc' = [pc EXCEPT !["worker"] = "return"]
    /\ UNCHANGED <<sigIgn, sections, pureVars, jt, ph, calls, statsRecorded, kvsWritten,
                   exc, propagated, wdeath, sigints, ret, storeVars>>

\* return (line 705): the worker process goes back to the caller's code
WorkerReturn ==
    /\ pc["worker"] = "return"
    /\ pc' = [pc EXCEPT !["worker"] = "in_caller"]
    /\ UNCHANGED <<mem, sigIgn, db, sections, pureVars, workerVars, sigints, ret, storeVars>>

\* the worker process ends when the caller's code is over
WorkerExit ==
    /\ pc["worker"] = "in_caller"
    /\ pc' = [pc EXCEPT !["worker"] = "exited"]
    /\ wdeath' = "normal"
    /\ UNCHANGED <<mem, sigIgn, db, sections, pureVars, jt, ph, calls, statsRecorded,
                   kvsWritten, exc, propagated, wsaves, sigints, ret, storeVars>>

(* ------------------- run_calculation: the supervisor ------------------- *)

\* the supervisor branch returning right after its save, without the call
\* of supervisor.supervise
SupervisorRecordPids_nosupervise ==
    /\ pc["supervisor"] = "record_pids"
    /\ mem' = [mem EXCEPT !["supervisor"].supervisor_pid = "supervisor_pid",
                          !["supervisor"].job_pid = "calc_pid"]
    /\ db' = SavedRow(mem'["supervisor"])
    /\ pc' = [pc EXCEPT !["supervisor"] = "return"]
    /\ UNCHANGED <<sigIgn, sections, pureVars, workerVars, sigints, ret, storeVars>>

\* calculation.supervisor_pid = os.getpid(); calculation.job_pid = calc_pid;
\* calculation.save(); then supervisor.supervise(calc_pid, calculation.id)
\* is entered.  The object saved is the copy made by the fork.
SupervisorRecordPids ==
    /\ pc["supervisor"] = "record_pids"
    /\ mem' = [mem EXCEPT !["supervisor"].supervisor_pid = "supervisor_pid",
                          !["supervisor"].job_pid = "calc_pid"]
    /\ db' = SavedRow(mem'["supervisor"])
    /\ pc' = [pc EXCEPT !["supervisor"] = "supervise"]
    /\ UNCHANGED <<sigIgn, sections, pureVars, workerVars, sigints, ret, storeVars>>

\* supervisor.supervise, first part: the supervisor ignores SIGINT
SuperviseIgnoreSigint ==
    /\ pc["supervisor"] = "supervise"
    /\ sigIgn' = [sigIgn EXCEPT !["supervisor"] = TRUE]
    /\ pc' = [pc EXCEPT !["supervisor"] = "monitor"]
    /\ UNCHANGED <<mem, db, sections, pureVars, workerVars, sigints, ret, storeVars>>

\* supervisor.supervise, second part: it blocks until the worker's pid is
\* gone, reads the status and, when it is not terminal, records 'failed'
SuperviseReconcile ==
    /\ pc["supervisor"] = "monitor"
    /\ pc["worker"] = "exited"
    /\ db' = IF db.status \in Terminal THEN db ELSE [db EXCEPT !.status = "failed"]
    /\ pc' = [pc EXCEPT !["supervisor"] = "return"]
    /\ UNCHANGED <<mem, sigIgn, sections, pureVars, workerVars, sigints, ret, storeVars>>

\* return (line 715): the supervisor process goes back to the caller's code
SupervisorReturn ==
    /\ pc["supervisor"] = "return"
    /\ pc' = [pc EXCEPT !["supervisor"] = "in_caller"]
    /\ UNCHANGED <<mem, sigIgn, db, sections, pureVars, workerVars, sigints, ret, storeVars>>

\* the supervisor process ends when the caller's code is over
SupervisorExit ==
    /\ pc["supervisor"] = "in_caller"
    /\ pc' = [pc EXCEPT !["supervisor"] = "exited"]
    /\ UNCHANGED <<mem, sigIgn, db, sections, pureVars, workerVars, sigints, ret, storeVars>>

(* ---------------------------- environment ------------------------------ *)

\* a process that exists and has not ended
Running(p) == pc[p] \notin {"unborn", "exited", "interrupted"}

\* the parent is inside run_calculation, past the fork of the worker
ParentInRun ==
    pc["parent"] \in {"fork_supervisor", "ignore_sigint", "wait_worker",
                      "wait_supervisor", "return"}

\* the worker is killed from outside (SIGKILL)
KillWorker ==
    /\ Running("worker")
    /\ pc' = [pc EXCEPT !["worker"] = "exited"]
    /\ wdeath' = "killed"
    /\ UNCHANGED <<mem, sigIgn, db, sections, pureVars, jt, ph, calls, statsRecorded,
                   kvsWritten, exc, propagated, wsaves, sigints, ret, storeVars>>

\* Ctrl-C: SIGINT reaches every process of the calculation.  A process that
\* does not ignore it gets KeyboardInterrupt, which `except Exception` does
\* not catch, and ends.
Sigint ==
    /\ sigints < MaxSigints
    /\ ParentInRun
    /\ sigints' = sigints + 1
    /\ pc' = [p \in Procs |->
                IF Running(p) /\ ~sigIgn[p]
                   THEN (IF p = "worker" THEN "exited" ELSE "interrupted")
                   ELSE pc[p]]
    /\ wdeath' = IF Running("worker") /\ ~sigIgn["worker"] THEN "sigint" ELSE wdeath
    /\ UNCHANGED <<mem, sigIgn, db, sections, pureVars, jt, ph, calls, statsRecorded,
                   kvsWritten, exc, propagated, wsaves, ret, storeVars>>

(* --------------------------- specification ----------------------------- *)

ParentNext ==
    \/ ImportJobProfile
    \/ JobFromFile
    \/ CreateCalculation
    \/ ForkWorker
    \/ ForkSupervisor
    \/ ParentIgnoreSigint
    \/ WaitWorker
    \/ WaitSupervisor
    \/ ParentReturn

WorkerNext ==
    \/ WorkerInitLogs
    \/ WorkerRecordInitialStats
    \/ WorkerToKvs
    \/ WorkerOutputDir
    \/ WorkerLoop
    \/ WorkerCalcClass
    \/ WorkerPhase
    \/ WorkerExcept
    \/ WorkerReraise
    \/ WorkerElse
    \/ WorkerReturn
    \/ WorkerExit

SupervisorNext ==
    \/ SupervisorRecordPids
    \/ SuperviseIgnoreSigint
    \/ SuperviseReconcile
    \/ SupervisorReturn
    \/ SupervisorExit

Next ==
    \/ ParentNext
    \/ WorkerNext
    \/ SupervisorNext
    \/ KillWorker
    \/ Sigint

Spec == Init /\ [][Next]_vars

\* every process that can take a step eventually takes one; kills and
\* interrupts may or may not happen
LiveSpec ==
    /\ Init /\ [][Next]_vars
    /\ WF_vars(ParentNext)
    /\ WF_vars(WorkerNext)
    /\ WF_vars(SupervisorNext)

(* ------------------------------ properties ----------------------------- *)

\* the (job type, phase) pairs called so far, in order
CalledPhases == [i \in 1 .. Len(calls) |-> <<calls[i].job_type, calls[i].phase>>]

FourPhases(d) ==
    << <<d, "analyze">>, <<d, "pre_execute">>, <<d, "execute">>, <<d, "post_execute">> >>

\* what a complete lifecycle calls for a set of sections
ExpectedCalls(secs) ==
    (IF "HAZARD" \in secs THEN FourPhases("hazard") ELSE <<>>)
    \o (IF "RISK" \in secs THEN FourPhases("risk") ELSE <<>>)

PhaseRaised == \E i \in 1 .. Len(calls) : calls[i].raised # 0

WorkerDiedUnrecorded ==
    /\ pc["worker"] = "exited"
    /\ wdeath \in {"killed", "sigint"}
    /\ wsaves = <<>>

\* the supervisor was interrupted, or was never forked because the parent
\* was interrupted first: it is not scheduled any more
SupervisorLost ==
    \/ pc["supervisor"] = "interrupted"
    \/ pc["supervisor"] = "unborn" /\ pc["parent"] = "interrupted"

\* C1: once the status in the database is 'succeeded' or 'failed', no step
\* of any process changes it.
C1_StatusMonotonic ==
    [][db.status \in Terminal => db'.status = db.status]_vars

\* C2: when the worker was killed or died before it saved a terminal
\* status, the status in the database eventually is 'failed', provided the
\* supervisor is still there; and with the worker gone the status does not
\* stay 'running' for ever.
C2_KilledWorkerEndsFailed ==
    /\ WorkerDiedUnrecorded ~> (db.status = "failed" \/ SupervisorLost)
    /\ (pc["worker"] = "exited") ~> (db.status # "running" \/ SupervisorLost)

C2_Witness ==
    /\ WorkerDiedUnrecorded
    /\ wdeath = "killed"
    /\ pc["supervisor"] = "return"
    /\ db.status = "failed"

\* C3: when no step of the worker raised and the worker was not killed (no
\* process was interrupted either), the status in the database once
\* run_calculation has returned in the parent is 'succeeded'.
C3_SucceededAfterReturn ==
    (pc["parent"] = "returned" /\ wdeath = "normal" /\ exc = 0 /\ sigints = 0)
        => db.status = "succeeded"

\* C4: when a calculator phase raised, the worker never saves 'succeeded',
\* and a worker that ran to its end saved 'failed' (and nothing else) and
\* let the exception the phase raised leave run_calculation.
C4_PhaseFailure ==
    PhaseRaised =>
        /\ \A i \in 1 .. Len(wsaves) : wsaves[i] # "succeeded"
        /\ mem["worker"].status # "succeeded"
        /\ wdeath = "exception" =>
              /\ wsaves = <<"failed">>
              /\ mem["worker"].status = "failed"
              /\ propagated = calls[Len(calls)].raised

C4_Witness ==
    /\ wdeath = "exception"
    /\ PhaseRaised
    /\ calls[Len(calls)].job_type = "risk"
    /\ calls[Len(calls)].phase = "execute"
    /\ propagated = 2
    /\ wsaves = <<"failed">>

\* C5: the phases called are always an initial part of: the four phases of
\* hazard in order if HAZARD is a section, then the four phases of risk in
\* order if RISK is a section; and they are all of it once the lifecycle
\* has returned.
C5_PhaseOrder ==
    /\ Len(CalledPhases) <= Len(ExpectedCalls(sections))
    /\ CalledPhases = SubSeq(ExpectedCalls(sections), 1, Len(CalledPhases))
    /\ (pc["worker"] \in {"else", "return", "in_caller"} \/ wdeath = "normal")
          => CalledPhases = ExpectedCalls(sections)

C5_Witness ==
    /\ wdeath = "normal"
    /\ {"HAZARD", "RISK"} \subseteq sections
    /\ Len(calls) = 8

\* C6: the status is 'succeeded', in the database or in the worker's
\* object, only when the initial stats were recorded, the proxy was written
\* to the kvs and every phase of every applicable job type has returned
\* without raising.
C6_SucceededOnlyAfterLifecycle ==
    (db.status = "succeeded" \/ mem["worker"].status = "succeeded") =>
        /\ statsRecorded
        /\ kvsWritten
        /\ CalledPhases = ExpectedCalls(sections)
        /\ ~PhaseRaised

C6_Witness ==
    /\ db.status = "succeeded"
    /\ "RISK" \in sections
    /\ Len(calls) >= 4

\* C7: the parent is at its return statement, or past it, only when the
\* worker process and the supervisor process have ended.
C7_ParentWaitsForChildren ==
    pc["parent"] \in {"return", "returned"} =>
        /\ pc["worker"] = "exited"
        /\ pc["supervisor"] \in {"exited", "interrupted"}

C7_Witness ==
    /\ pc["parent"] = "returned"
    /\ pc["supervisor"] = "exited"
    /\ wdeath = "normal"

\* C8: when run_calculation has returned in the parent and the database
\* row holds a terminal status, the returned record carries that status
\* (already in the runs in which no interrupt was delivered).
C8_ReturnsFinalRecord ==
    (pc["parent"] = "returned" /\ db.status \in Terminal /\ sigints = 0) =>
        ret.status = db.status

\* C9: an interrupt delivered after the fork of the worker ends neither the
\* parent nor the supervisor.
C9_OnlyWorkerInterrupted ==
    /\ pc["parent"] # "interrupted"
    /\ pc["supervisor"] # "interrupted"

\* C10: when an entry point raised ValidationException, that call persisted
\* no input-set, input or job-profile record.
C10_ValidationBeforePersistence ==
    pc["parent"] = "ValidationException" => store = storeAtCall

(* ----------------------- _prepare_job on its own ------------------------ *)

\* run_calculation and the entry points at rest
RunIdle ==
    /\ pc = [parent |-> "start", worker |-> "unborn", supervisor |-> "unborn"]
    /\ mem = [p \in Procs |-> NewCalculation]
    /\ sigIgn = [p \in Procs |-> FALSE]
    /\ db = [saved |-> FALSE, status |-> "pending",
             supervisor_pid |-> None, job_pid |-> None]
    /\ sections = {}
    /\ jt = 1
    /\ ph = 1
    /\ calls = <<>>
    /\ statsRecorded = FALSE
    /\ kvsWritten = FALSE
    /\ exc = 0
    /\ propagated = 0
    /\ wsaves = <<>>
    /\ wdeath = "none"
    /\ sigints = 0
    /\ ret = NewCalculation
    /\ store = [input_sets |-> 0, inputs |-> 0, job_profiles |-> 0]
    /\ storeAtCall = store

NoRecords == [input_sets |-> 0, inputs |-> 0, job_profiles |-> 0]

\* for each file a configuration names, whether it exists
FileLists == UNION {[1 .. n -> BOOLEAN] : n \in 0 .. MaxInputFiles}

\* leaving commit_on_success without an exception: what the connection
\* wrote since the last commit becomes durable
Commit(j) ==
    [j EXCEPT !.committed = [input_sets |-> @.input_sets + j.pending.input_sets,
                             inputs |-> @.inputs + j.pending.inputs,
                             job_profiles |-> @.job_profiles + j.pending.job_profiles],
              !.pending = NoRecords]

\* writes that are durable at once, as on a connection in autocommit mode
OnException_autocommit(j) == [Commit(j) EXCEPT !.pc = "raised"]

\* an exception leaves _get_job_profile and _prepare_job: each
\* commit_on_success rolls the connection back and lets the exception go on
OnException(j) == [j EXCEPT !.pending = NoRecords, !.pc = "raised"]

JobInit ==
    /\ RunIdle
    /\ cfg = Idle
    /\ prep = Idle
    /\ proxy = Idle
    /\ \E owner_exists \in BOOLEAN, files \in FileLists, models \in FileLists,
          params_ok \in BOOLEAN, before \in {NoRecords, PrepareJob(NoRecords, 1)} :
          job = [pc |-> "get_owner", owner_exists |-> owner_exists,
                 files |-> files, models |-> models, params_ok |-> params_ok,
                 i |-> 1, atCall |-> before, committed |-> before,
                 pending |-> NoRecords]

\* owner = OqUser.objects.get(user_name=owner_username)
PJ_GetOwner ==
    /\ job.pc = "get_owner"
    /\ job' = IF job.owner_exists
                 THEN [job EXCEPT !.pc = "save_input_set"]
                 ELSE OnException(job)
    /\ UNCHANGED <<runVars, cfg, prep, proxy>>

\* input_set = InputSet(upload=None, owner=owner); input_set.save();
\* calc_mode and job_type; _get_job_profile is entered
PJ_SaveInputSet ==
    /\ job.pc = "save_input_set"
    /\ job' = [job EXCEPT !.pending.input_sets = @ + 1,
                          !.pc = "insert_inputs", !.i = 1]
    /\ UNCHANGED <<runVars, cfg, prep, proxy>>

\* _insert_input_files, first loop: os.path.getsize(path) raises when the
\* file is missing; otherwise in_model.save()
PJ_InsertInput ==
    /\ job.pc = "insert_inputs"
    /\ job' = IF job.i > Len(job.files)
                 THEN [job EXCEPT !.pc = "insert_models", !.i = 1]
                 ELSE IF job.files[job.i]
                         THEN [job EXCEPT !.pending.inputs = @ + 1, !.i = @ + 1]
                         ELSE OnException(job)
    /\ UNCHANGED <<runVars, cfg, prep, proxy>>

\* _insert_input_files, second loop: the source models of the logic tree
PJ_InsertSourceModel ==
    /\ job.pc = "insert_models"
    /\ job' = IF job.i > Len(job.models)
                 THEN [job EXCEPT !.pc = "store_params"]
                 ELSE IF job.models[job.i]
                         THEN [job EXCEPT !.pending.inputs = @ + 1, !.i = @ + 1]
                         ELSE OnException(job)
    /\ UNCHANGED <<runVars, cfg, prep, proxy>>

\* _store_input_parameters(params, calc_mode, job_profile): a value that
\* cannot be coerced raises
PJ_StoreParams ==
    /\ job.pc = "store_params"
    /\ job' = IF job.params_ok
                 THEN [job EXCEPT !.pc = "save_profile"]
                 ELSE OnException(job)
    /\ UNCHANGED <<runVars, cfg, prep, proxy>>

\* job_profile.owner = owner; job_profile.save()
PJ_SaveProfile ==
    /\ job.pc = "save_profile"
    /\ job' = [job EXCEPT !.pending.job_profiles = @ + 1, !.pc = "inner_exit"]
    /\ UNCHANGED <<runVars, cfg, prep, proxy>>

\* _get_job_profile returns: its commit_on_success commits
PJ_InnerCommit ==
    /\ job.pc = "inner_exit"
    /\ job' = [Commit(job) EXCEPT !.pc = "reread"]
    /\ UNCHANGED <<runVars, cfg, prep, proxy>>

\* return OqJobProfile.objects.get(id=job_profile.id); the outer
\* commit_on_success commits what is left (nothing)
PJ_Return ==
    /\ job.pc = "reread"
    /\ job' = [Commit(job) EXCEPT !.pc = "returned"]
    /\ UNCHANGED <<runVars, cfg, prep, proxy>>

JobNext ==
    \/ PJ_GetOwner
    \/ PJ_SaveInputSet
    \/ PJ_InsertInput
    \/ PJ_InsertSourceModel
    \/ PJ_StoreParams
    \/ PJ_SaveProfile
    \/ PJ_InnerCommit
    \/ PJ_Return

JobSpec == JobInit /\ [][JobNext]_vars

\* C11: the durable records are at every moment those from before the call
\* or those plus one input set, one input per file and one job profile;
\* they are the former when the call raised and the latter when it returned.
C11_AllOrNothing ==
    job.pc # "idle" =>
        LET all == PrepareJob(job.atCall, Len(job.files) + Len(job.models))
        IN /\ job.committed \in {job.atCall, all}
           /\ job.pc = "raised" => job.committed = job.atCall
           /\ job.pc = "returned" => job.committed = all

C11_Witness ==
    /\ job.pc = "raised"
    /\ Len(job.files) >= 1
    /\ \A k \in 1 .. Len(job.files) : job.files[k]
    /\ job.models = <<FALSE>>

(* --------------------- _parse_config_file on its own -------------------- *)

\* most non-include and include keys in one section of the root file
MaxItems == 2

\* a path: absolute or relative, and its components
AbsPath(comps) == [abs |-> TRUE, comps |-> comps]

RelPath(comps) == [abs |-> FALSE, comps |-> comps]

\* os.path.join(a, b) that always appends b to a
Join_append(a, b) == [abs |-> a.abs, comps |-> a.comps \o b.comps]

\* os.path.join(a, b): an absolute b replaces a
Join(a, b) == IF b.abs THEN b ELSE [abs |-> a.abs, comps |-> a.comps \o b.comps]

\* os.path.dirname(p)
Dirname(p) == [p EXCEPT !.comps = SubSeq(@, 1, Len(@) - 1)]

\* the working directory of the process
Cwd == AbsPath(<<"d">>)

\* os.path.abspath(p), for paths without "." and ".." components
Abspath(p) == IF p.abs THEN p ELSE Join(Cwd, p)

\* RE_INCLUDE.match(key), over the keys the files use
IncludeKeys == {"HAZARD_INCLUDE", "RISK_INCLUDE"}

IsInclude(key) == key \in IncludeKeys

\* a dict: a function from its keys
EmptyDict == [k \in {} |-> ""]

\* d[k] = v
Put(d, k, v) == [x \in DOMAIN d \cup {k} |-> IF x = k THEN v ELSE d[x]]

\* d.update(e)
Update(d, e) == [x \in DOMAIN d \cup DOMAIN e |-> IF x \in DOMAIN e THEN e[x] ELSE d[x]]

Item(key, value) == [key |-> key, value |-> value]

Section(name, items) == [name |-> name, items |-> items]

\* the files the root file may include, and what they hold
IncludedFiles ==
    (AbsPath(<<"d", "a.gem">>) :> << Section("RISK", <<Item("K1", "a1")>>) >>)
    @@ (AbsPath(<<"d", "sub", "b.gem">>) :>
            << Section("HAZARD", <<Item("K2", "b2"),
                                   Item("RISK_INCLUDE", RelPath(<<"c.gem">>))>>) >>)
    @@ (AbsPath(<<"d", "sub", "c.gem">>) :> << Section("general", <<Item("K3", "c3")>>) >>)

\* a file no include directive of the tree names
StrayFile ==
    AbsPath(<<"d", "sub", "a.gem">>) :> << Section("RISK", <<Item("K1", "stray")>>) >>

\* the items a section of the root file is made of
RootItems ==
    {Item("HAZARD_INCLUDE", RelPath(<<"sub", "b.gem">>)),
     Item("RISK_INCLUDE", RelPath(<<"a.gem">>)),
     Item("K1", "r1"),
     Item("K2", "r2")}

\* the sequences of at most n items of S without a repeated item
RECURSIVE ItemSeqs(_, _)
ItemSeqs(S, n) ==
    IF n = 0 THEN {<<>>}
    ELSE LET shorter == ItemSeqs(S, n - 1)
         IN shorter \cup {Append(q, x) : q \in shorter, x \in S}

DistinctItems(q) == \A i, j \in 1 .. Len(q) : i # j => q[i] # q[j]

RootSections ==
    {Section(name, q) : name \in {"general", "HAZARD"},
                        q \in {r \in ItemSeqs(RootItems, MaxItems) : DistinctItems(r)}}

\* a root file: one or two sections with different names
RootFiles ==
    {<<a>> : a \in RootSections}
    \cup {f \in {<<a, b>> : a \in RootSections, b \in RootSections} :
                f[1].name # f[2].name}

RootPath == AbsPath(<<"d", "root.gem">>)

\* parser.sections() and parser.items(section), flattened in file order
RECURSIVE Flatten(_)
Flatten(content) ==
    IF content = <<>> THEN <<>>
    ELSE [i \in 1 .. Len(Head(content).items) |->
             [section |-> Head(content).name,
              key |-> Head(content).items[i].key,
              value |-> Head(content).items[i].value]]
         \o Flatten(Tail(content))

RECURSIVE ParseConfigFile(_, _)
RECURSIVE ParseItems(_, _, _, _)

\* the loop of _parse_config_file from item i on; st holds params,
\* sections, the local variable config_file and the include files opened
ParseItems(fs, items, i, st) ==
    IF i > Len(items) \/ ~st.ok THEN st
    ELSE LET it == items[i]
         IN IF IsInclude(it.key)
               THEN LET config_file == Join(Dirname(st.config_file), it.value)
                        sub == ParseConfigFile(fs, config_file)
                        opening == [by |-> st.file, value |-> it.value, path |-> config_file]
                    IN IF ~sub.ok
                          THEN [st EXCEPT !.ok = FALSE,
                                          !.opened = Append(@, opening) \o sub.opened]
                          ELSE ParseItems(fs, items, i + 1,
                                   [st EXCEPT !.config_file = config_file,
                                              !.sections = @ \cup sub.sections,
                                              !.params = Update(@, sub.params),
                                              !.opened = Append(@, opening) \o sub.opened])
               ELSE ParseItems(fs, items, i + 1,
                        [st EXCEPT !.sections = @ \cup {it.section},
                                   !.params = Put(@, it.key, it.value)])

\* _parse_config_file(config_file); ok = FALSE stands for the
\* ValidationException of a file that is not found
ParseConfigFile(fs, arg) ==
    LET config_file == Abspath(arg)
        base_path == Abspath(Dirname(config_file))
        start == [ok |-> TRUE, file |-> config_file, config_file |-> config_file,
                  params |-> EmptyDict, sections |-> {}, opened |-> <<>>]
    IN IF config_file \notin DOMAIN fs
          THEN [start EXCEPT !.ok = FALSE]
          ELSE LET st == ParseItems(fs, Flatten(fs[config_file]), 1, start)
               IN IF st.ok THEN [st EXCEPT !.params = Put(@, "BASE_PATH", base_path)]
                           ELSE st

ParseInit ==
    /\ RunIdle
    /\ prep = Idle
    /\ job = Idle
    /\ proxy = Idle
    /\ \E root \in RootFiles, stray \in BOOLEAN,
          arg \in {RootPath, RelPath(<<"root.gem">>)} :
          cfg = [pc |-> "ready",
                 fs |-> (RootPath :> root) @@ IncludedFiles
                        @@ (IF stray THEN StrayFile ELSE EmptyDict),
                 arg |-> arg]

\* the call _parse_config_file(arg)
ParseCall ==
    /\ cfg.pc = "ready"
    /\ cfg' = [pc |-> "parsed", fs |-> cfg.fs, arg |-> cfg.arg,
               out |-> ParseConfigFile(cfg.fs, cfg.arg)]
    /\ UNCHANGED <<runVars, prep, job, proxy>>

ParseNext == ParseCall

ParseSpec == ParseInit /\ [][ParseNext]_vars

\* the tree of files read from file on, with every include directive taken
\* relative to the directory of the file that holds it: the key/value pairs
\* merged in the order visited, and the sections of every visited file
RECURSIVE TreeParams(_, _)
RECURSIVE TreeItems(_, _, _, _, _)
RECURSIVE TreeSections(_, _)

TreeItems(fs, file, items, i, acc) ==
    IF i > Len(items) THEN acc
    ELSE TreeItems(fs, file, items, i + 1,
             IF IsInclude(items[i].key)
                THEN Update(acc, TreeParams(fs, Join(Dirname(file), items[i].value)))
                ELSE Put(acc, items[i].key, items[i].value))

TreeParams(fs, file) == TreeItems(fs, file, Flatten(fs[file]), 1, EmptyDict)

TreeSections(fs, file) ==
    LET items == Flatten(fs[file])
    IN {fs[file][k].name : k \in 1 .. Len(fs[file])}
       \cup UNION {TreeSections(fs, Join(Dirname(file), items[i].value)) :
                     i \in {j \in 1 .. Len(items) : IsInclude(items[j].key)}}

\* every include file was opened where its directive says
ResolvedAsWritten(opened) ==
    \A k \in 1 .. Len(opened) :
        opened[k].path = Join(Dirname(opened[k].by), opened[k].value)

\* C12: the parameter mapping _parse_config_file returns is the merge of the
\* key/value pairs of the files of the tree in the order visited, a later
\* write overwriting an earlier one, with BASE_PATH set to the absolute
\* directory of the root file.
C12_MergeInVisitOrder ==
    cfg.pc = "parsed" =>
        /\ cfg.out.ok
        /\ cfg.out.params = Put(TreeParams(cfg.fs, Abspath(cfg.arg)), "BASE_PATH",
                                Dirname(Abspath(cfg.arg)))

\* C13: the sections _parse_config_file returns are the union of the
\* sections of every visited file, a section whose only keys are include
\* directives among them (stated for root files without an empty section,
\* on the runs in which every include file was opened where its directive
\* says).
C13_SectionsOfVisitedFiles ==
    (/\ cfg.pc = "parsed"
     /\ cfg.out.ok
     /\ ResolvedAsWritten(cfg.out.opened)
     /\ \A k \in 1 .. Len(cfg.fs[RootPath]) : cfg.fs[RootPath][k].items # <<>>) =>
        cfg.out.sections = TreeSections(cfg.fs, Abspath(cfg.arg))

\* C14: every include directive is resolved relative to the directory of the
\* file that contains it, the second and later directives of a file too.
C14_IncludeRelativeToIncluder ==
    cfg.pc = "parsed" => ResolvedAsWritten(cfg.out.opened)

(* ----------------- _prepare_config_parameters on its own ---------------- *)

\* CALCULATION_MODE of openquake.job.params: the mode a configuration
\* file's CALCULATION_MODE value stands for
CALCULATION_MODE ==
    ("Classical" :> "classical")
    @@ ("Classical BCR" :> "classical_bcr")
    @@ ("Event Based" :> "event_based")

AllModes == {CALCULATION_MODE[v] : v \in DOMAIN CALCULATION_MODE}

\* PARAMS of openquake.job.params: the modes of each known parameter
PARAMS ==
    ("CALCULATION_MODE" :> [modes |-> AllModes])
    @@ ("BASE_PATH" :> [modes |-> AllModes])
    @@ ("EXPOSURE" :> [modes |-> AllModes])
    @@ ("COMPUTE_MEAN_HAZARD_CURVE" :> [modes |-> {"classical", "classical_bcr"}])
    @@ ("GMF_RANDOM_SEED" :> [modes |-> {"event_based"}])

\* PATH_PARAMS of openquake.job.params
PATH_PARAMS == {"EXPOSURE"}

\* a parameter survives the filter whatever the mode
Legal_anymode(name, calc_mode) == name \in DOMAIN PARAMS

\* the filter of the first loop: the parameter is known and its modes
\* include calc_mode
Legal(name, calc_mode) == name \in DOMAIN PARAMS /\ calc_mode \in PARAMS[name].modes

\* the mean hazard curve is forced as soon as there is a HAZARD section
ForceMean_hazardonly(calc_mode, secs) == calc_mode = "classical" /\ "HAZARD" \in secs

\* the test guarding the COMPUTE_MEAN_HAZARD_CURVE default
ForceMean(calc_mode, secs) == calc_mode = "classical" /\ {"HAZARD", "RISK"} \subseteq secs

KeyError == [ok |-> FALSE]

\* _prepare_config_parameters(params, sections); ok = FALSE stands for the
\* KeyError of an unknown calculation mode or a missing key
PrepareConfigParameters(params, secs) ==
    IF \/ "CALCULATION_MODE" \notin DOMAIN params
       \/ params["CALCULATION_MODE"] \notin DOMAIN CALCULATION_MODE
    THEN KeyError
    ELSE LET calc_mode == CALCULATION_MODE[params["CALCULATION_MODE"]]
             kept == {name \in DOMAIN params : Legal(name, calc_mode)}
         IN IF kept \cap PATH_PARAMS # {} /\ "BASE_PATH" \notin DOMAIN params
            THEN KeyError
            ELSE LET new_params ==
                         [name \in kept |->
                             IF name \in PATH_PARAMS
                                THEN Join(params["BASE_PATH"], params[name])
                                ELSE params[name]]
                 IN [ok |-> TRUE,
                     params |-> IF ForceMean(calc_mode, secs)
                                   THEN Put(new_params, "COMPUTE_MEAN_HAZARD_CURVE", "true")
                                   ELSE new_params,
                     sections |-> secs]

\* a key the configuration may leave out: no value or one of S
Optional(S) == {<<>>} \cup {<<v>> : v \in S}

\* the values a configuration may give each key
RawValues ==
    [CALCULATION_MODE : Optional({"Classical", "Classical BCR", "Event Based", "Scenario X"}),
     COMPUTE_MEAN_HAZARD_CURVE : Optional({"", "true", "false"}),
     EXPOSURE : Optional({RelPath(<<"exposure.xml">>), AbsPath(<<"data", "exposure.xml">>)}),
     GMF_RANDOM_SEED : Optional({"3"}),
     FOO : Optional({"x"})]

\* the raw mapping: the keys given, and BASE_PATH as _parse_config_file sets it
RawParams(r) ==
    LET given == {k \in DOMAIN r : r[k] # <<>>}
    IN Put([k \in given |-> r[k][1]], "BASE_PATH", Dirname(RootPath))

PrepareInit ==
    /\ RunIdle
    /\ cfg = Idle
    /\ job = Idle
    /\ proxy = Idle
    /\ \E r \in RawValues, secs \in SUBSET {"general", "HAZARD", "RISK"} :
          prep = [pc |-> "ready", params |-> RawParams(r), sections |-> secs]

\* the call _prepare_config_parameters(params, sections)
PrepareCall ==
    /\ prep.pc = "ready"
    /\ prep' = [pc |-> "prepared", params |-> prep.params, sections |-> prep.sections,
                out |-> PrepareConfigParameters(prep.params, prep.sections)]
    /\ UNCHANGED <<runVars, cfg, job, proxy>>

\* the call _prepare_config_parameters on what the first call returned
PrepareAgain ==
    /\ prep.pc = "prepared"
    /\ prep.out.ok
    /\ prep' = [pc |-> "again", params |-> prep.params, sections |-> prep.sections,
                out |-> prep.out,
                out2 |-> PrepareConfigParameters(prep.out.params, prep.out.sections)]
    /\ UNCHANGED <<runVars, cfg, job, proxy>>

PrepareNext == PrepareCall \/ PrepareAgain

PrepareSpec == PrepareInit /\ [][PrepareNext]_vars

\* the prepared mapping of a call that returned
Prepared == prep.pc \in {"prepared", "again"} /\ prep.out.ok

\* C15: every key of the prepared mapping is known to the catalog and its
\* modes include the active calculation mode.
C15_OnlyLegalParameters ==
    Prepared =>
        \A name \in DOMAIN prep.out.params :
            /\ name \in DOMAIN PARAMS
            /\ CALCULATION_MODE[prep.params["CALCULATION_MODE"]] \in PARAMS[name].modes

\* an unknown key and a key of another mode were given and dropped
C15_Witness ==
    /\ Prepared
    /\ {"FOO", "GMF_RANDOM_SEED", "COMPUTE_MEAN_HAZARD_CURVE"} \subseteq DOMAIN prep.params
    /\ prep.params["CALCULATION_MODE"] = "Classical"
    /\ "COMPUTE_MEAN_HAZARD_CURVE" \in DOMAIN prep.out.params
    /\ "GMF_RANDOM_SEED" \notin DOMAIN prep.out.params

\* C16: in classical mode with both HAZARD and RISK sections the prepared
\* COMPUTE_MEAN_HAZARD_CURVE is 'true' whatever the raw mapping gave; in any
\* other case the key is as the raw mapping gave it (absent when not given
\* or not legal for the mode).
C16_MeanHazardCurveDefault ==
    Prepared =>
        LET key == "COMPUTE_MEAN_HAZARD_CURVE"
            calc_mode == CALCULATION_MODE[prep.params["CALCULATION_MODE"]]
            out == prep.out.params
        IN IF calc_mode = "classical" /\ "HAZARD" \in prep.sections /\ "RISK" \in prep.sections
              THEN key \in DOMAIN out /\ out[key] = "true"
              ELSE /\ key \in DOMAIN out <=>
                           (key \in DOMAIN prep.params /\ calc_mode \in PARAMS[key].modes)
                   /\ key \in DOMAIN out => out[key] = prep.params[key]

\* the raw mapping said 'false' and the prepared one says 'true'
C16_Witness ==
    /\ Prepared
    /\ "COMPUTE_MEAN_HAZARD_CURVE" \in DOMAIN prep.params
    /\ prep.params["COMPUTE_MEAN_HAZARD_CURVE"] = "false"
    /\ "COMPUTE_MEAN_HAZARD_CURVE" \in DOMAIN prep.out.params
    /\ prep.out.params["COMPUTE_MEAN_HAZARD_CURVE"] = "true"

\* C17: _prepare_config_parameters applied to its own output succeeds and
\* returns a mapping equal to that output.
C17_PrepareIdempotent ==
    prep.pc = "again" =>
        /\ prep.out2.ok
        /\ prep.out2.params = prep.out.params
        /\ prep.out2.sections = prep.out.sections

\* the second application met a joined path and a forced default
C17_Witness ==
    /\ prep.pc = "again"
    /\ {"EXPOSURE", "COMPUTE_MEAN_HAZARD_CURVE"} \subseteq DOMAIN prep.params
    /\ {"EXPOSURE", "COMPUTE_MEAN_HAZARD_CURVE"} \subseteq DOMAIN prep.out.params
    /\ prep.params["EXPOSURE"] = RelPath(<<"exposure.xml">>)
    /\ prep.out.params["EXPOSURE"] = AbsPath(<<"d", "exposure.xml">>)
    /\ prep.params["COMPUTE_MEAN_HAZARD_CURVE"] = "false"
    /\ prep.out.params["COMPUTE_MEAN_HAZARD_CURVE"] = "true"
    /\ prep.out.params # prep.params

(* ------------- CalculationProxy.sites_to_compute on its own ------------- *)

\* most calls of sites_to_compute on one proxy
MaxCalls == 2

\* a parameter value is the sequence of the tokens of its string; float()
\* of the tokens the configurations use
Float == ("0" :> 0) @@ ("1" :> 1) @@ ("5" :> 5) @@ ("7" :> 7)

\* to_job of a coordinate parameter: the list of its numbers
ToJob(tokens) == [i \in 1 .. Len(tokens) |-> Float[tokens[i]]]

\* shapes.Site(longitude, latitude)
Site(lon, lat) == [longitude |-> lon, latitude |-> lat]

\* has(name): the parameter is defined and its string is not empty
Has(params, name) == name \in DOMAIN params /\ params[name] # <<>>

\* self[name] for a defined parameter
GetItem(params, name) == ToJob(params[name])

\* the pairs taken in the order of the values: zip(verts[::2], verts[1::2])
ExtractCoords_unswapped(params, config_param) ==
    LET verts == GetItem(params, config_param)
    IN [i \in 1 .. (Len(verts) \div 2) |-> <<verts[2 * i - 1], verts[2 * i]>>]

\* _extract_coords(config_param): zip(verts[1::2], verts[::2])
ExtractCoords(params, config_param) ==
    LET verts == GetItem(params, config_param)
    IN [i \in 1 .. (Len(verts) \div 2) |-> <<verts[2 * i], verts[2 * i - 1]>>]

MinOf(S) == CHOOSE x \in S : \A y \in S : x <= y

MaxOf(S) == CHOOSE x \in S : \A y \in S : x >= y

\* the sites a shapes.Region of these (lon, lat) vertices iterates over:
\* the grid of its bounding box at the cell size
RegionGrid(coords, cell_size) ==
    LET lons == {coords[i][1] : i \in 1 .. Len(coords)}
        lats == {coords[i][2] : i \in 1 .. Len(coords)}
        w == (MaxOf(lons) - MinOf(lons)) \div cell_size + 1
        h == (MaxOf(lats) - MinOf(lats)) \div cell_size + 1
    IN [k \in 1 .. w * h |->
           Site(MinOf(lons) + ((k - 1) % w) * cell_size,
                MinOf(lats) + ((k - 1) \div w) * cell_size)]

\* RegionConstraint.match(site) for a constraint of these vertices
Match(coords, site) ==
    /\ \E i, j \in 1 .. Len(coords) : coords[i][1] <= site.longitude
                                      /\ site.longitude <= coords[j][1]
    /\ \E i, j \in 1 .. Len(coords) : coords[i][2] <= site.latitude
                                      /\ site.latitude <= coords[j][2]

\* _sites_for_region()
SitesForRegion(params) ==
    RegionGrid(ExtractCoords(params, "REGION_VERTEX"),
               GetItem(params, "REGION_GRID_SPACING")[1])

\* the loop of read_sites_from_exposure: a site is appended once
RECURSIVE WithoutDuplicates(_)
WithoutDuplicates(q) ==
    IF q = <<>> THEN <<>>
    ELSE LET sites == WithoutDuplicates(SubSeq(q, 1, Len(q) - 1))
             site == q[Len(q)]
         IN IF \E i \in 1 .. Len(sites) : sites[i] = site THEN sites
            ELSE Append(sites, site)

\* read_sites_from_exposure(calc_proxy): the assets of the exposure file the
\* region admits (all of them without a region), without duplicates
ReadSitesFromExposure(params, assets) ==
    IF Has(params, "REGION_VERTEX")
       THEN WithoutDuplicates(
                SelectSeq(assets,
                          LAMBDA a : Match(ExtractCoords(params, "REGION_VERTEX"), a)))
       ELSE WithoutDuplicates(assets)

\* the SITES list wins over the exposure file
Policy_sitesfirst(params, secs) ==
    IF Has(params, "SITES") THEN "sites"
    ELSE IF "RISK" \in secs /\ Has(params, "COMPUTE_HAZARD_AT_ASSETS_LOCATIONS")
            THEN "exposure"
            ELSE "region"

\* the branch sites_to_compute takes when it computes the sites
Policy(params, secs) ==
    IF "RISK" \in secs /\ Has(params, "COMPUTE_HAZARD_AT_ASSETS_LOCATIONS")
       THEN "exposure"
       ELSE IF Has(params, "SITES") THEN "sites" ELSE "region"

\* the sites a branch computes
PolicySites(policy, params, assets) ==
    CASE policy = "exposure" -> ReadSitesFromExposure(params, assets)
      [] policy = "sites" ->
             LET coords == ExtractCoords(params, "SITES")
             IN [i \in 1 .. Len(coords) |-> Site(coords[i][1], coords[i][2])]
      [] policy = "region" -> SitesForRegion(params)

\* the branch raises: no EXPOSURE parameter to read, or no region to iterate
PolicyRaises(policy, params) ==
    \/ policy = "exposure" /\ "EXPOSURE" \notin DOMAIN params
    \/ policy = "region" /\ "REGION_VERTEX" \notin DOMAIN params

\* the assets an exposure file may hold: two inside the region, one outside
Assets == {Site(5, 0), Site(7, 1), Site(1, 7)}

AssetLists == {<<>>} \cup {<<a>> : a \in Assets} \cup {<<a, b>> : a \in Assets, b \in Assets}

\* the values a configuration may give the keys sites_to_compute reads
ProxyValues ==
    [SITES : Optional({<<>>, <<"0">>, <<"0", "5">>, <<"0", "5", "1">>,
                       <<"0", "5", "1", "7">>}),
     COMPUTE_HAZARD_AT_ASSETS_LOCATIONS : Optional({<<>>, <<"true">>, <<"false">>}),
     REGION_VERTEX : Optional({<<"0", "5", "1", "5", "1", "7", "0", "7">>}),
     EXPOSURE : Optional({<<"exposure.xml">>})]

ProxyParams(r) ==
    LET given == {k \in DOMAIN r : r[k] # <<>>}
    IN Put([k \in given |-> r[k][1]], "REGION_GRID_SPACING", <<"1">>)

SitesInit ==
    /\ RunIdle
    /\ cfg = Idle
    /\ prep = Idle
    /\ job = Idle
    /\ \E r \in ProxyValues, secs \in SUBSET {"HAZARD", "RISK"}, assets \in AssetLists :
          proxy = [pc |-> "ready", params |-> ProxyParams(r), sections |-> secs,
                   assets |-> assets, sites |-> <<>>, evals |-> <<>>,
                   ret |-> <<>>, calls |-> 0]

\* one call of sites_to_compute that finds the cache filled
SitesFromCache ==
    /\ proxy.pc = "ready"
    /\ proxy.calls < MaxCalls
    /\ proxy.sites # <<>>
    /\ proxy' = [proxy EXCEPT !.ret = proxy.sites, !.calls = @ + 1]
    /\ UNCHANGED <<runVars, cfg, prep, job>>

\* one call of sites_to_compute that computes the sites
SitesComputed ==
    /\ proxy.pc = "ready"
    /\ proxy.calls < MaxCalls
    /\ proxy.sites = <<>>
    /\ LET policy == Policy(proxy.params, proxy.sections)
       IN IF PolicyRaises(policy, proxy.params)
             THEN proxy' = [proxy EXCEPT !.pc = "raised", !.calls = @ + 1,
                                         !.evals = Append(@, policy)]
             ELSE LET sites == PolicySites(policy, proxy.params, proxy.assets)
                  IN proxy' = [proxy EXCEPT !.sites = sites, !.ret = sites,
                                            !.calls = @ + 1,
                                            !.evals = Append(@, policy)]
    /\ UNCHANGED <<runVars, cfg, prep, job>>

SitesNext == SitesFromCache \/ SitesComputed

SitesSpec == SitesInit /\ [][SitesNext]_vars

\* the first call has returned
FirstCallReturned == proxy.pc = "ready" /\ proxy.calls = 1

\* the sites of the SITES list, pair by pair
ListedSites(params) ==
    LET coords == ExtractCoords(params, "SITES")
    IN [i \in 1 .. Len(coords) |-> Site(coords[i][1], coords[i][2])]

\* C18: on a proxy without cached sites, a RISK section together with the
\* COMPUTE_HAZARD_AT_ASSETS_LOCATIONS flag selects the sites of the exposure
\* file even when SITES is given; otherwise SITES, when given, selects its
\* own sites; otherwise the sites are the grid points of the region.
C18_SitePrecedence ==
    FirstCallReturned =>
        LET flagged == /\ "RISK" \in proxy.sections
                       /\ Has(proxy.params, "COMPUTE_HAZARD_AT_ASSETS_LOCATIONS")
            listed == Has(proxy.params, "SITES")
        IN /\ flagged =>
                  /\ proxy.evals = <<"exposure">>
                  /\ proxy.ret = ReadSitesFromExposure(proxy.params, proxy.assets)
           /\ (~flagged /\ listed) =>
                  /\ proxy.evals = <<"sites">>
                  /\ proxy.ret = ListedSites(proxy.params)
           /\ (~flagged /\ ~listed) =>
                  /\ proxy.evals = <<"region">>
                  /\ proxy.ret = SitesForRegion(proxy.params)

\* both the flag and a SITES list were given, and the exposure file won
C18_Witness ==
    /\ FirstCallReturned
    /\ "RISK" \in proxy.sections
    /\ Has(proxy.params, "COMPUTE_HAZARD_AT_ASSETS_LOCATIONS")
    /\ Has(proxy.params, "SITES")
    /\ proxy.ret = <<Site(7, 1)>>
    /\ ListedSites(proxy.params) = <<Site(5, 0)>>

\* C19: in any sequence of calls of sites_to_compute on one proxy the
\* site-selection policy is evaluated by the first call only, whatever the
\* first result was (stated for the proxies whose sites come from the
\* exposure file).
C19_PolicyEvaluatedOnce ==
    (Len(proxy.evals) >= 1 /\ proxy.evals[1] = "exposure") => Len(proxy.evals) = 1

\* C20: a coordinate parameter lat_1, lon_1, lat_2, lon_2, ... gives the
\* pairs (lon_i, lat_i) in input order: a SITES list yields the sites
\* Site(lon_i, lat_i) in that order, and the region is built from the
\* (lon_i, lat_i) pairs of REGION_VERTEX.
C20_LonLatPairs ==
    (proxy.pc = "ready" /\ proxy.calls >= 1) =>
        /\ proxy.evals[1] = "sites" =>
               LET v == proxy.params["SITES"]
               IN proxy.ret = [i \in 1 .. (Len(v) \div 2) |->
                                  Site(Float[v[2 * i]], Float[v[2 * i - 1]])]
        /\ proxy.evals[1] = "region" =>
               LET v == proxy.params["REGION_VERTEX"]
               IN proxy.ret = RegionGrid([i \in 1 .. (Len(v) \div 2) |->
                                             <<Float[v[2 * i]], Float[v[2 * i - 1]]>>],
                                         Float[proxy.params["REGION_GRID_SPACING"][1]])

\* SITES = 0,5, 1,7 gave the sites (5, 0) and (7, 1) in that order
C20_Witness ==
    /\ proxy.pc = "ready"
    /\ proxy.calls >= 1
    /\ proxy.evals[1] = "sites"
    /\ proxy.params["SITES"] = <<"0", "5", "1", "7">>
    /\ proxy.ret = <<Site(5, 0), Site(7, 1)>>

(* ------------------ run_calculation: who returns to the caller ---------- *)

\* C22: of the three processes that execute run_calculation after the
\* forks, only the parent returns to the caller; the worker and the
\* supervisor never continue into the caller's code (stated for the runs
\* without an interrupt, up to the end of the worker process).
C22_OnlyParentReturns ==
    (sigints = 0 /\ wdeath = "none") =>
        /\ pc["worker"] # "in_caller"
        /\ pc["supervisor"] # "in_caller"

(* ---------------- CalculationProxy.to_kvs and from_kvs ------------------ *)

\* a Python byte string and a Python unicode string
Str(text) == [type |-> "str", text |-> text]

Unicode(text) == [type |-> "unicode", text |-> text]

\* a == b for two strings of ASCII text: the type does not matter
PyEq(a, b) == a.text = b.text

\* d == e for two dicts of strings
DictEq(d, e) == DOMAIN d = DOMAIN e /\ \A k \in DOMAIN d : PyEq(d[k], e[k])

\* kvs.set_value_json_encoded: every value becomes a JSON string
JsonEncode(data) == [k \in DOMAIN data |-> [json |-> "string", text |-> data[k].text]]

\* kvs.get_value_json_decoded: every JSON string becomes a unicode string
JsonDecode(doc) == [k \in DOMAIN doc |-> Unicode(doc[k].text)]

\* the base_path property: _base_path, or BASE_PATH of the parameters
BasePath(p) == IF p.base_path # <<>> THEN p.base_path[1] ELSE p.params["BASE_PATH"].text

\* the keys _slurp_files reads a file for
FileKeys(params) == DOMAIN params \cap {"SOURCE_MODEL_LOGIC_TREE_FILE"}

\* _slurp_files(): the value of a ..._FILE key becomes the key of the blob,
\* and the key ..._FILE_PATH gets the path of the file
SlurpFiles(p) ==
    LET with_path ==
            IF "SOURCE_MODEL_LOGIC_TREE_FILE" \in DOMAIN p.params
               THEN Put(p.params, "SOURCE_MODEL_LOGIC_TREE_FILE_PATH",
                        Str(Join(BasePath(p), p.params["SOURCE_MODEL_LOGIC_TREE_FILE"].text)))
               ELSE p.params
    IN [k \in DOMAIN with_path |->
           IF k \in FileKeys(p.params) THEN Str(<<"blob_key", p.params[k].text>>)
           ELSE with_path[k]]

\* the parameters of a proxy built from a configuration file
KvsParams(with_file) ==
    LET base == ("CALCULATION_MODE" :> Str("Classical"))
                @@ ("BASE_PATH" :> Str(Dirname(RootPath)))
    IN IF with_file
          THEN Put(base, "SOURCE_MODEL_LOGIC_TREE_FILE", Str(RelPath(<<"source_model.xml">>)))
          ELSE base

KvsInit ==
    /\ RunIdle
    /\ cfg = Idle
    /\ prep = Idle
    /\ job = Idle
    /\ \E with_file \in BOOLEAN, file_exists \in BOOLEAN,
          base_path \in Optional({Dirname(RootPath)}),
          secs \in SUBSET {"general", "HAZARD", "RISK"},
          debug \in {"warn", "debug"} :
          proxy = [pc |-> "ready", params |-> KvsParams(with_file), sections |-> secs,
                   base_path |-> base_path, file_exists |-> file_exists,
                   debug |-> debug, kvs |-> [job |-> <<>>, blobs |-> {}],
                   restored |-> <<>>]

\* proxy.to_kvs(); open() raises IOError when a file to slurp is missing
ToKvs ==
    /\ proxy.pc = "ready"
    /\ IF FileKeys(proxy.params) # {} /\ ~proxy.file_exists
          THEN proxy' = [proxy EXCEPT !.pc = "raised"]
          ELSE LET params == SlurpFiles(proxy)
                   data == Put(params, "debug", Str(proxy.debug))
               IN proxy' = [proxy EXCEPT
                               !.pc = "stored",
                               !.params = params,
                               !.kvs = [job |-> <<JsonEncode(data)>>,
                                        blobs |-> {proxy.params[k].text :
                                                      k \in FileKeys(proxy.params)}]]
    /\ UNCHANGED <<runVars, cfg, prep, job>>

\* CalculationProxy.from_kvs(job_id) in a fresh process: the constructor
\* gets the decoded parameters and the default sections and base path
FromKvs ==
    /\ proxy.pc = "stored"
    /\ proxy' = [proxy EXCEPT
                    !.pc = "restored",
                    !.restored = <<[params |-> JsonDecode(proxy.kvs.job[1]),
                                    sections |-> {},
                                    base_path |-> <<>>]>>]
    /\ UNCHANGED <<runVars, cfg, prep, job>>

KvsNext == ToKvs \/ FromKvs

KvsSpec == KvsInit /\ [][KvsNext]_vars

\* C21: after proxy.to_kvs(), CalculationProxy.from_kvs(proxy.job_id) gives
\* a proxy whose parameters equal the stored proxy's parameters (the two
\* proxies are equal under ==) and whose sections equal its sections.
C21_KvsRoundTrip ==
    proxy.pc = "restored" =>
        /\ DictEq(proxy.restored[1].params, proxy.params)
        /\ proxy.restored[1].sections = proxy.sections

====
